---- MODULE Spec2Model ----
(***************************************************************************)
(* RSSI-driven two-hop LoRa routing: the master controller (master         *)
(* firmware, src/unnamed/part_002) and the slave agent                     *)
(* (src/LoRa/lora_slave.ino) over a shared, lossy, half-duplex radio.      *)
(*                                                                         *)
(* The specifications share the same handler definitions. The master's     *)
(* millis() is the variable now: a delay() of the master advances it by    *)
(* the length of the delay, a window of the master ends at the millisecond *)
(* its deadline is reached, and a test of loop() is met at the first pass  *)
(* of loop(), LOOP_DELAY apart, at or after its deadline.                  *)
(*   Spec        master and slaves together.                               *)
(*   MasterSpec  the master alone, fed frames by the radio environment at  *)
(*               the instants its waits begin.                             *)
(*   TimedSpec   the master alone, fed frames also at the instants in      *)
(*               between, TickMs apart.                                    *)
(***************************************************************************)
EXTENDS Integers, Sequences, FiniteSets, TLC

VARIABLES
  now,            \* millis() of the master
  nodes,          \* master: nodes[0 .. nodeCount-1], as a sequence
  lastDiscovery,  \* master: unsigned long lastDiscovery
  lastCheck,      \* master: static lastCheck of checkNodeHealth
  startTime,      \* master: startTime of the current blocking wait
  mpc,            \* master: where the control is ("setup", "broadcast",
                  \*   "discovery", "assign", "collect", "loop")
  mret,           \* master: who called performDiscovery
  mq,             \* master: frames performDiscovery still has to send
  air,            \* radio: <<frame, sender>> on the air, <<>> when silent
  pending,        \* radio: the nodes the frame on the air has yet to reach
  alive,          \* slaves that are powered
  myNodeID, totalNodes, canDirectComm, directRSSI, slaveMasterMAC,
  neighbors, bestHopMAC, bestPathRSSI,   \* slave globals, one per slave
  spc,            \* slave: "loop", or inside handleNeighborPoll "poll" (its
                  \*   delays and its query) and "await" (the wait for the reply)
  pollTarget,     \* slave: targetNodeMAC of the handleNeighborPoll in progress
  outbox,         \* slave: the frame the running handler is about to send
  cycles,       \* history: discovery cycles started
  fired,          \* history: expiries of the slaves' timers in loop()
  acked,          \* history: addresses acknowledged in this discovery window
  dups,           \* history: addresses acknowledged more than once in it
  failed,         \* history: slaves that were powered off
  renewed,        \* history: slaves given an identifier since the last failure
  probed          \* history: slaves queried by a live Direct peer since then

mvars == <<nodes, lastDiscovery, lastCheck, startTime, mpc, mret, mq>>
rvars == <<air, pending>>
svars == <<alive, myNodeID, totalNodes, canDirectComm, directRSSI, slaveMasterMAC,
           neighbors, bestHopMAC, bestPathRSSI, spc, pollTarget, outbox>>
hvars == <<failed, renewed, probed>>
avars == <<acked, dups>>
vars == <<now, mvars, rvars, svars, cycles, fired, avars, hvars>>

----------------------------------------------------------------------------
(* Bounds of the model *)

NumSlaves == 3
MaxCycles == 2
MaxFwd == 2
MaxFailures == 1
MaxFirings == 1
MaxTicks == 40
TickMs == 2500

(* Program constants *)

MSG_DISCOVERY == 1
MSG_ASSIGN_ID == 2
MSG_POLL_NEIGHBOR == 3
MSG_RSSI_REPORT == 4
MSG_DATA == 5
MSG_ACK == 6
MSG_HEARTBEAT == 7
MSG_DIRECT_COMM == 8

MAX_NODES == 10
DISCOVERY_TIMEOUT == 5000
DISCOVERY_SETTLE == 100
LOOP_DELAY == 10
ASSIGN_DELAY == 200
POLL_DELAY == 300
POLL_INTERVAL_Slow == 3 * 30000
POLL_INTERVAL == 30000
HEARTBEAT_TIMEOUT == 60000
HEALTH_CHECK_GATE == 10000
COLLECT_WINDOW == 5000
COLLECT_DELAY == 2000
SETUP_DELAY == 1000
MAX_NEIGHBORS == 10
DIRECT_THRESHOLD == -120
INITIAL_BEST_PATH == -999
ZeroMAC == 0

Slaves == 1 .. NumSlaves
masterMAC == NumSlaves + 1
Radios == Slaves \cup {masterMAC}

\* RSSI readings LoRa.packetRssi() returns for a received frame (dBm):
\* at the master alone (MasterSpec), in the network (Spec), between slaves.
MasterRSSI == {-110, -60}
HopRSSI == {-50, -40}
\* The reading a receiver takes of a frame from the given sender: the slave
\* with the highest address is out of the master's direct range, the slave
\* with the lowest address is the nearest neighbour of every other slave.
Link(a, b) ==
  IF masterMAC \in {a, b}
  THEN (IF NumSlaves \in {a, b} THEN -125 ELSE -60)
  ELSE (IF 1 \in {a, b} THEN -40 ELSE -50)
\* The telemetry scalars readTemperature() returns, in tenths of a degree.
TempVals == {215}

Max(S) == CHOOSE x \in S : \A y \in S : y <= x
Min(S) == CHOOSE x \in S : \A y \in S : x <= y

\* (int8_t)x and (uint8_t)x of the C code.
ToU8(x) == x % 256
ToI8(x) == IF x % 256 >= 128 THEN (x % 256) - 256 ELSE x % 256

----------------------------------------------------------------------------
(* Frames: the type tag, up to three addresses, up to two payload bytes.   *)
(* A field the frame does not carry reads -1, as LoRa.read() does past the *)
(* end of a packet. fwd is history: how often the frame was forwarded.     *)

Frame(t, a, b, c, x, y, h) ==
  [type |-> t, m1 |-> a, m2 |-> b, m3 |-> c, b1 |-> x, b2 |-> y, fwd |-> h]

DiscoveryFrame == Frame(MSG_DISCOVERY, masterMAC, -1, -1, -1, -1, 0)
AssignFrame(mac, id, total) == Frame(MSG_ASSIGN_ID, masterMAC, mac, -1, id, total, 0)
PollFrame(prober, target) == Frame(MSG_POLL_NEIGHBOR, masterMAC, prober, target, -1, -1, 0)
ReportFrame(prober, target, rssi) == Frame(MSG_RSSI_REPORT, prober, target, -1, ToU8(rssi), -1, 0)
DataFrame(origin, temp, h) == Frame(MSG_DATA, origin, -1, -1, temp, -1, h)
AckFrame(mac) == Frame(MSG_ACK, mac, -1, -1, -1, -1, 0)
DirectAckFrame(mac, flag) == Frame(MSG_ACK, mac, -1, -1, flag, -1, 0)
HeartbeatFrame(mac) == Frame(MSG_HEARTBEAT, mac, -1, -1, -1, -1, 0)
DirectCommFrame(prober, target, flag) == Frame(MSG_DIRECT_COMM, prober, target, -1, flag, -1, 0)

----------------------------------------------------------------------------
(* Master: the node table *)

nodeCount == Len(nodes)

\* Faulty variant of findNode: an address without a record is taken for the
\* first record.
findNode_OrFirst(tbl, mac) ==
  IF \E i \in 1 .. Len(tbl) : tbl[i].macAddress = mac
  THEN Min({i \in 1 .. Len(tbl) : tbl[i].macAddress = mac}) - 1
  ELSE IF Len(tbl) > 0 THEN 0 ELSE -1

\* int findNode(uint8_t* mac): the 0-based index, or -1.
findNode(tbl, mac) ==
  IF \E i \in 1 .. Len(tbl) : tbl[i].macAddress = mac
  THEN Min({i \in 1 .. Len(tbl) : tbl[i].macAddress = mac}) - 1
  ELSE -1

\* Faulty variant of findOrAddNode: the search for an existing record is skipped.
findOrAddNode_NoSearch(tbl, mac, slot) ==
  IF Len(tbl) < MAX_NODES
  THEN [idx |-> Len(tbl), tbl |-> Append(tbl, [slot EXCEPT !.macAddress = mac])]
  ELSE [idx |-> -1, tbl |-> tbl]

\* Faulty variant of findOrAddNode: no test of nodeCount against MAX_NODES.
findOrAddNode_NoLimit(tbl, mac, slot) ==
  IF findNode(tbl, mac) >= 0
  THEN [idx |-> findNode(tbl, mac), tbl |-> tbl]
  ELSE [idx |-> Len(tbl), tbl |-> Append(tbl, [slot EXCEPT !.macAddress = mac])]

\* int findOrAddNode(uint8_t* mac): the index and the table it leaves. slot
\* is what nodes[nodeCount] holds: a new record gets the address and keeps
\* the other fields of the slot, those of a record of an earlier cycle or
\* the zeros of the array as it is at boot.
findOrAddNode(tbl, mac, slot) ==
  IF findNode(tbl, mac) >= 0
  THEN [idx |-> findNode(tbl, mac), tbl |-> tbl]
  ELSE IF Len(tbl) < MAX_NODES
       THEN [idx |-> Len(tbl), tbl |-> Append(tbl, [slot EXCEPT !.macAddress = mac])]
       ELSE [idx |-> -1, tbl |-> tbl]

\* Node nodes[MAX_NODES]: a slot of the array no record has been written to.
UnusedSlot ==
  [macAddress |-> 0, rssi |-> 0, hopCount |-> 0, viaNode |-> 0, lastSeen |-> 0,
   active |-> FALSE, pathRSSI |-> 0]

\* handleDiscoveryResponse(): frame f received with RSSI r at time t. Every
\* field a new record keeps from its slot is assigned here (lines 180-186)
\* before anything reads it, so the table left is the same whatever the
\* slot held; it is taken as never written to.
handleDiscoveryResponse(tbl, f, r, t) ==
  IF f.type = MSG_ACK
  THEN LET fa == findOrAddNode(tbl, f.m1, UnusedSlot)
       IN IF fa.idx >= 0
          THEN [fa.tbl EXCEPT ![fa.idx + 1] =
                  [@ EXCEPT !.rssi = ToI8(r), !.hopCount = 1, !.viaNode = 0,
                            !.lastSeen = t, !.active = TRUE, !.pathRSSI = r]]
          ELSE fa.tbl
  ELSE tbl

\* Faulty variant of OutOfOrder: equal readings are swapped too.
OutOfOrder_OrEqual(x, y) == x.rssi <= y.rssi

\* The comparison of sortNodesByRSSI: swap when the left is weaker.
OutOfOrder(x, y) == x.rssi < y.rssi

Swap(s, j) == [s EXCEPT ![j] = s[j + 1], ![j + 1] = s[j]]

RECURSIVE BubbleInner(_, _, _)
BubbleInner(s, i, j) ==
  IF j < Len(s) - i - 1
  THEN BubbleInner(IF OutOfOrder(s[j + 1], s[j + 2]) THEN Swap(s, j + 1) ELSE s, i, j + 1)
  ELSE s

RECURSIVE BubbleOuter(_, _)
BubbleOuter(s, i) ==
  IF i < Len(s) - 1 THEN BubbleOuter(BubbleInner(s, i, 0), i + 1) ELSE s

\* void sortNodesByRSSI(): bubble sort, strongest first.
sortNodesByRSSI(tbl) == BubbleOuter(tbl, 0)

\* void assignNodeIDs(): the ASSIGN_ID frames, in the order sent.
assignNodeIDs(tbl) ==
  [i \in 1 .. Len(tbl) |-> AssignFrame(tbl[i].macAddress, i, Len(tbl))]

\* Faulty variant of PollPairs: only the first node probes.
PollPairs_OneProber(n) ==
  LET ni == IF n - 1 < 1 THEN (IF n - 1 < 0 THEN 0 ELSE n - 1) ELSE 1
      nj == IF n - 2 < 0 THEN 0 ELSE n - 2
  IN [k \in 1 .. ni * nj |-> <<(k - 1) \div nj, 2 + ((k - 1) % nj)>>]

\* void instructNeighborPolling(): the POLL_NEIGHBOR frames, in the order sent.
\* i runs over 0 .. min(nodeCount-1, 2)-1 and j over 2 .. nodeCount-1.
PollPairs(n) ==
  LET ni == IF n - 1 < 2 THEN (IF n - 1 < 0 THEN 0 ELSE n - 1) ELSE 2
      nj == IF n - 2 < 0 THEN 0 ELSE n - 2
  IN [k \in 1 .. ni * nj |-> <<(k - 1) \div nj, 2 + ((k - 1) % nj)>>]

instructNeighborPolling(tbl) ==
  [k \in 1 .. Len(PollPairs(Len(tbl))) |->
     PollFrame(tbl[PollPairs(Len(tbl))[k][1] + 1].macAddress,
               tbl[PollPairs(Len(tbl))[k][2] + 1].macAddress)]

\* Steps 3 to 5 of performDiscovery(): the sorted table and the frames to send.
PollingWanted(tbl) == Len(tbl) > 2

discoverySends(tbl) ==
  assignNodeIDs(tbl) \o (IF PollingWanted(tbl) THEN instructNeighborPolling(tbl) ELSE <<>>)

\* Faulty variant of BetterPath: a two-hop route is kept unless the new
\* total is better.
BetterPath_OnlyBetter(target, totalPathRSSI) == totalPathRSSI > target.pathRSSI

\* The best-path test of handleRoutingReport.
BetterPath(target, totalPathRSSI) ==
  target.hopCount > 1 \/ totalPathRSSI > target.pathRSSI

\* Faulty variant of handleRoutingReport: viaNode stores the 0-based index.
handleRoutingReport_ZeroBased(tbl, f) ==
  IF f.type = MSG_RSSI_REPORT
  THEN LET pollingIdx == findNode(tbl, f.m1)
           targetIdx == findNode(tbl, f.m2)
           hopRSSI == ToI8(f.b1)
       IN IF pollingIdx >= 0 /\ targetIdx >= 0
          THEN LET totalPathRSSI == tbl[pollingIdx + 1].rssi + hopRSSI
               IN IF BetterPath(tbl[targetIdx + 1], totalPathRSSI)
                  THEN [tbl EXCEPT ![targetIdx + 1] =
                          [@ EXCEPT !.hopCount = 2, !.viaNode = pollingIdx,
                                    !.pathRSSI = totalPathRSSI]]
                  ELSE tbl
          ELSE tbl
  ELSE tbl

\* void handleRoutingReport(): frame f.
handleRoutingReport(tbl, f) ==
  IF f.type = MSG_RSSI_REPORT
  THEN LET pollingIdx == findNode(tbl, f.m1)
           targetIdx == findNode(tbl, f.m2)
           hopRSSI == ToI8(f.b1)
       IN IF pollingIdx >= 0 /\ targetIdx >= 0
          THEN LET totalPathRSSI == tbl[pollingIdx + 1].rssi + hopRSSI
               IN IF BetterPath(tbl[targetIdx + 1], totalPathRSSI)
                  THEN [tbl EXCEPT ![targetIdx + 1] =
                          [@ EXCEPT !.hopCount = 2, !.viaNode = pollingIdx + 1,
                                    !.pathRSSI = totalPathRSSI]]
                  ELSE tbl
          ELSE tbl
  ELSE tbl

\* The addresses of the model stand for 00:00:00:00:00:nn.
FirstByte(mac) == 0

\* handleIncomingMessage() has read the type byte when it calls
\* handleRoutingReport(), which reads a type byte again: it takes the first
\* byte of the prober's address for the type and the bytes after it, one
\* off, for the addresses, which are then those of no node.
Reread(f) == [f EXCEPT !.type = FirstByte(f.m1), !.m1 = -1, !.m2 = -1]

\* Faulty variant of handleIncomingMessage: a HEARTBEAT makes its sender a
\* direct node again.
handleIncomingMessage_Direct(tbl, f, r, t) ==
  IF f.type = MSG_DATA
  THEN IF findNode(tbl, f.m1) >= 0
       THEN [tbl EXCEPT ![findNode(tbl, f.m1) + 1].lastSeen = t]
       ELSE tbl
  ELSE IF f.type = MSG_HEARTBEAT
  THEN IF findNode(tbl, f.m1) >= 0
       THEN [tbl EXCEPT ![findNode(tbl, f.m1) + 1] =
               [@ EXCEPT !.lastSeen = t, !.rssi = ToI8(r), !.hopCount = 1, !.viaNode = 0]]
       ELSE tbl
  ELSE IF f.type = MSG_RSSI_REPORT
  THEN handleRoutingReport(tbl, Reread(f))
  ELSE tbl

\* void handleIncomingMessage(int): frame f received with RSSI r at time t.
handleIncomingMessage(tbl, f, r, t) ==
  IF f.type = MSG_DATA
  THEN IF findNode(tbl, f.m1) >= 0
       THEN [tbl EXCEPT ![findNode(tbl, f.m1) + 1].lastSeen = t]
       ELSE tbl
  ELSE IF f.type = MSG_HEARTBEAT
  THEN IF findNode(tbl, f.m1) >= 0
       THEN [tbl EXCEPT ![findNode(tbl, f.m1) + 1] =
               [@ EXCEPT !.lastSeen = t, !.rssi = ToI8(r)]]
       ELSE tbl
  ELSE IF f.type = MSG_RSSI_REPORT
  THEN handleRoutingReport(tbl, Reread(f))
  ELSE tbl

\* The staleness test of checkNodeHealth.
Stale(node, t) == node.active /\ t - node.lastSeen > HEARTBEAT_TIMEOUT

\* checkNodeHealth(), past its gate: the table its loop over the records
\* leaves (lines 378-386).
checkNodeHealth(tbl, t) ==
  [i \in 1 .. Len(tbl) |->
     IF Stale(tbl[i], t) THEN [tbl[i] EXCEPT !.active = FALSE] ELSE tbl[i]]

routingChanged(tbl, t) == \E i \in 1 .. Len(tbl) : Stale(tbl[i], t)

----------------------------------------------------------------------------
(* The radio: one frame on the air at a time. The nodes it has yet to      *)
(* reach take it in turn, each hearing it (its handler runs to completion) *)
(* or missing it. A node that is sending or delaying does not listen.      *)

Listeners(sender) == (alive \cup {masterMAC}) \ {sender}

OnAir(f, sender) ==
  /\ air = <<>>
  /\ air' = IF Listeners(sender) = {} THEN <<>> ELSE <<f, sender>>
  /\ pending' = Listeners(sender)

Turn(n) == air # <<>> /\ n \in pending /\ n = Min(pending)

Consume(n) ==
  /\ pending' = pending \ {n}
  /\ air' = IF pending \ {n} = {} THEN <<>> ELSE air

\* The frame misses node n (lost, corrupted, or n was not listening).
Lose(n) ==
  /\ Turn(n)
  /\ Consume(n)
  /\ UNCHANGED <<now, mvars, svars, cycles, fired, avars, hvars>>

----------------------------------------------------------------------------
(* Master: control flow of setup(), loop(), performDiscovery().            *)
(* The actions leave the radio's variables to the specification that uses  *)
(* them, except where the master sends.                                    *)

\* Faulty variant of beginDiscovery: nodeCount is not reset.
beginDiscovery_Keep(ret) ==
  /\ nodes' = nodes
  /\ OnAir(DiscoveryFrame, masterMAC)
  /\ mpc' = "broadcast"
  /\ mret' = ret
  /\ mq' = <<>>
  /\ acked' = {}
  /\ dups' = {}
  /\ UNCHANGED <<lastDiscovery, startTime, svars, hvars>>

\* performDiscovery() up to its delay(100) (lines 115-125): the table is
\* emptied and DISCOVERY goes out; the master then waits without parsing.
beginDiscovery(ret) ==
  /\ nodes' = <<>>
  /\ OnAir(DiscoveryFrame, masterMAC)
  /\ mpc' = "broadcast"
  /\ mret' = ret
  /\ mq' = <<>>
  /\ acked' = {}
  /\ dups' = {}
  /\ UNCHANGED <<lastDiscovery, startTime, svars, hvars>>

\* setup(): the first performDiscovery().
Setup ==
  /\ mpc = "setup"
  /\ beginDiscovery("setup")
  /\ UNCHANGED <<now, lastCheck>>

\* loop(): if (millis() - lastDiscovery > POLL_INTERVAL) performDiscovery().
DiscoveryDue == now - lastDiscovery > POLL_INTERVAL

\* checkNodeHealth(): if (millis() - lastCheck < 10000) return.
HealthCheckDue == now - lastCheck >= HEALTH_CHECK_GATE

\* loop() tests its deadlines once in a pass and ends the pass with
\* delay(10): the millis() of the first pass at or after millisecond d. In
\* loop() the clock stands at a pass; the tests of that pass are still to
\* come, unless performDiscovery() has just returned into checkNodeHealth(),
\* the last call of its pass.
PassAt(d) ==
  IF d <= now
  THEN IF mret = "health" THEN now + LOOP_DELAY ELSE now
  ELSE now + LOOP_DELAY * ((d - now + LOOP_DELAY - 1) \div LOOP_DELAY)

\* The millis() of the first pass of loop() in which the test holds.
DiscoveryTime == PassAt(lastDiscovery + POLL_INTERVAL + 1)

HealthTime == PassAt(lastCheck + HEALTH_CHECK_GATE)

\* loop() runs until the discovery is due (line 104, tested before
\* checkNodeHealth() in a pass), then performDiscovery().
PeriodicDiscovery ==
  /\ mpc = "loop"
  /\ DiscoveryTime <= HealthTime
  /\ now' = DiscoveryTime
  /\ beginDiscovery("loop")
  /\ UNCHANGED lastCheck

\* delay(100) is over: startTime = millis(), the response window opens.
OpenDiscoveryWindow ==
  /\ mpc = "broadcast"
  /\ now' = now + DISCOVERY_SETTLE
  /\ startTime' = now + DISCOVERY_SETTLE
  /\ mpc' = "discovery"
  /\ UNCHANGED <<nodes, lastDiscovery, lastCheck, mret, mq, rvars, svars, cycles, fired, avars, hvars>>

\* The discovery window: while (millis() - startTime < DISCOVERY_TIMEOUT).
DiscoveryWindowOpen == now - startTime < DISCOVERY_TIMEOUT

\* The millis() at which a window of the given length, open or not, is left.
WindowEnd(len) == IF now - startTime < len THEN startTime + len ELSE now

\* A packet parsed inside the discovery window: handleDiscoveryResponse().
DiscoveryRx(f, r) ==
  /\ mpc = "discovery"
  /\ nodes' = handleDiscoveryResponse(nodes, f, r, now)
  /\ acked' = IF f.type = MSG_ACK THEN acked \cup {f.m1} ELSE acked
  /\ dups' = IF f.type = MSG_ACK /\ f.m1 \in acked THEN dups \cup {f.m1} ELSE dups
  /\ UNCHANGED <<now, lastDiscovery, lastCheck, startTime, mpc, mret, mq, svars, cycles, fired, hvars>>

\* The window runs out: sort, then queue the ASSIGN_ID and POLL_NEIGHBOR frames.
EndDiscoveryWindow ==
  /\ mpc = "discovery"
  /\ now' = WindowEnd(DISCOVERY_TIMEOUT)
  /\ nodes' = sortNodesByRSSI(nodes)
  /\ mq' = discoverySends(sortNodesByRSSI(nodes))
  /\ mpc' = "assign"
  /\ acked' = {}
  /\ dups' = {}
  /\ UNCHANGED <<lastDiscovery, lastCheck, startTime, mret, rvars, svars, cycles, fired, hvars>>

\* The delay() after a frame: 200 ms in assignNodeIDs(), 300 ms in
\* instructNeighborPolling().
SendDelay(f) == IF f.type = MSG_ASSIGN_ID THEN ASSIGN_DELAY ELSE POLL_DELAY

\* assignNodeIDs() / instructNeighborPolling(): the next frame goes out and
\* the master waits out the delay() that follows it.
MasterTransmit ==
  /\ mpc = "assign"
  /\ mq # <<>>
  /\ OnAir(Head(mq), masterMAC)
  /\ mq' = Tail(mq)
  /\ now' = now + SendDelay(Head(mq))
  /\ UNCHANGED <<nodes, lastDiscovery, lastCheck, startTime, mpc, mret, svars, cycles, fired, avars, hvars>>

\* delay(2000), then collectRoutingInfo() starts its window.
BeginCollect ==
  /\ mpc = "assign"
  /\ mq = <<>>
  /\ mpc' = "collect"
  /\ now' = now + COLLECT_DELAY
  /\ startTime' = now + COLLECT_DELAY
  /\ UNCHANGED <<nodes, lastDiscovery, lastCheck, mret, mq, rvars, svars, cycles, fired, avars, hvars>>

\* collectRoutingInfo(): while (millis() - startTime < 5000).
CollectWindowOpen == now - startTime < COLLECT_WINDOW

\* A packet parsed inside the collection window: handleRoutingReport().
CollectRx(f) ==
  /\ mpc = "collect"
  /\ nodes' = handleRoutingReport(nodes, f)
  /\ UNCHANGED <<now, lastDiscovery, lastCheck, startTime, mpc, mret, mq, svars, cycles, fired, avars, hvars>>

\* The window runs out and performDiscovery() returns; loop() then sets
\* lastDiscovery = millis() (line 106).
EndCollect ==
  /\ mpc = "collect"
  /\ mpc' = "loop"
  /\ now' = WindowEnd(COLLECT_WINDOW)
  /\ lastDiscovery' = IF mret = "loop" THEN WindowEnd(COLLECT_WINDOW) ELSE lastDiscovery
  /\ UNCHANGED <<nodes, lastCheck, startTime, mret, mq, rvars, svars, cycles, fired, avars, hvars>>

\* loop(): a packet is parsed and handled by handleIncomingMessage().
LoopRx(f, r) ==
  /\ mpc = "loop"
  /\ nodes' = handleIncomingMessage(nodes, f, r, now)
  /\ UNCHANGED <<now, lastDiscovery, lastCheck, startTime, mpc, mret, mq, svars, cycles, fired, avars, hvars>>

\* loop() runs until checkNodeHealth() passes its gate (line 373): stale
\* records are marked inactive and, if there was one, performDiscovery() is
\* called from the check (lines 388-391) and runs up to its delay(100).
HealthCheck ==
  /\ mpc = "loop"
  /\ HealthTime < DiscoveryTime
  /\ now' = HealthTime
  /\ lastCheck' = HealthTime
  /\ IF routingChanged(nodes, HealthTime)
     THEN /\ beginDiscovery("health")
          /\ cycles' = cycles + 1
     ELSE /\ nodes' = checkNodeHealth(nodes, HealthTime)
          /\ UNCHANGED <<lastDiscovery, startTime, mpc, mret, mq, rvars, svars, cycles,
                         avars, hvars>>
  /\ UNCHANGED fired

----------------------------------------------------------------------------
(* Slave: the handlers of lora_slave.ino, for the slave with address n.    *)
(* A handler that sends leaves its frame in outbox[n]; until SlaveTransmit *)
(* has put it on the air the slave is inside the handler and hears nothing,*)
(* and neither does it in the delay(500) that follows its DIRECT_COMM.     *)

Listening(n) == n \in alive /\ outbox[n] = <<>> /\ spc[n] # "poll"

Flag(b) == IF b THEN 1 ELSE 0

\* void handleDiscovery()
handleDiscovery(n, f, r) ==
  /\ f.type = MSG_DISCOVERY
  /\ slaveMasterMAC' = [slaveMasterMAC EXCEPT ![n] = f.m1]
  /\ directRSSI' = [directRSSI EXCEPT ![n] = ToI8(r)]
  /\ outbox' = [outbox EXCEPT ![n] = <<AckFrame(n)>>]
  /\ UNCHANGED <<alive, myNodeID, totalNodes, canDirectComm, neighbors, bestHopMAC,
                 bestPathRSSI, spc, pollTarget, hvars>>

\* handleIDAssignment(): if (directRSSI > -120)
GoodEnoughForDirect(rssi) == rssi > DIRECT_THRESHOLD

\* void handleIDAssignment()
handleIDAssignment(n, f) ==
  /\ f.type = MSG_ASSIGN_ID
  /\ IF f.m2 = n
     THEN /\ myNodeID' = [myNodeID EXCEPT ![n] = f.b1]
          /\ totalNodes' = [totalNodes EXCEPT ![n] = f.b2]
          /\ renewed' = renewed \cup {n}
          /\ IF GoodEnoughForDirect(directRSSI[n])
             THEN /\ canDirectComm' = [canDirectComm EXCEPT ![n] = TRUE]
                  /\ bestPathRSSI' = [bestPathRSSI EXCEPT ![n] = directRSSI[n]]
                  /\ bestHopMAC' = [bestHopMAC EXCEPT ![n] = slaveMasterMAC[n]]
             ELSE /\ canDirectComm' = [canDirectComm EXCEPT ![n] = FALSE]
                  /\ UNCHANGED <<bestPathRSSI, bestHopMAC>>
     ELSE UNCHANGED <<myNodeID, totalNodes, renewed, canDirectComm, bestPathRSSI, bestHopMAC>>
  /\ UNCHANGED <<alive, directRSSI, slaveMasterMAC, neighbors, spc, pollTarget, outbox,
                 failed, probed>>

\* void handleNeighborPoll(), up to its delay(100) (lines 223-237); the
\* DIRECT_COMM goes out after it.
handleNeighborPoll(n, f) ==
  /\ f.type = MSG_POLL_NEIGHBOR
  /\ IF f.m2 = n
     THEN /\ outbox' = [outbox EXCEPT ![n] = <<DirectCommFrame(n, f.m3, Flag(canDirectComm[n]))>>]
          /\ spc' = [spc EXCEPT ![n] = "poll"]
          /\ pollTarget' = [pollTarget EXCEPT ![n] = f.m3]
     ELSE UNCHANGED <<outbox, spc, pollTarget>>
  /\ UNCHANGED <<alive, myNodeID, totalNodes, canDirectComm, directRSSI, slaveMasterMAC,
                 neighbors, bestHopMAC, bestPathRSSI, hvars>>

\* The poll the master sends next after the poll n is handling, if any
\* (instructNeighborPolling(), part_002 lines 255-266).
PollAfter(n) ==
  LET sched == instructNeighborPolling(nodes)
  IN {sched[k + 1] : k \in {k \in 1 .. Len(sched) - 1 :
                              sched[k].m2 = n /\ sched[k].m3 = pollTarget[n]}}

\* A frame of a poll exchange that n cannot hear: a DIRECT_COMM, or the ACK
\* of one of the targets ts.
ExchangeFrame(f, ts) ==
  \/ f.type = MSG_DIRECT_COMM
  \/ f.type = MSG_ACK /\ f.m1 \in ts

\* handleNeighborPoll(): delay(500) (line 247) is still running. It outlasts
\* the reply to the query of n, which the target sends delay(random(10, 50))
\* after the query (lines 321-322), and the whole exchange of the master's
\* next poll, sent 300 ms after the poll of n (part_002 line 265): that
\* prober's delay(100) and DIRECT_COMM and its target's reply.
ReplyPending(n) ==
  LET ts == {pollTarget[n]} \cup {g.m3 : g \in PollAfter(n)}
  IN \/ \E g \in PollAfter(n) : \E i \in DOMAIN mq : mq[i] = g
     \/ IF air = <<>> THEN FALSE
        ELSE air[1] \in PollAfter(n) \/ ExchangeFrame(air[1], ts)
     \/ \E m \in Slaves : \E i \in DOMAIN outbox[m] : ExchangeFrame(outbox[m][i], ts)

\* handleNeighborPoll(): delay(500) is over, startTime = millis() and the
\* wait for the reply begins (lines 247-251).
OpenAwait(n) ==
  /\ n \in alive
  /\ spc[n] = "poll"
  /\ outbox[n] = <<>>
  /\ spc' = [spc EXCEPT ![n] = "await"]
  /\ UNCHANGED <<alive, myNodeID, totalNodes, canDirectComm, directRSSI, slaveMasterMAC,
                 neighbors, bestHopMAC, bestPathRSSI, pollTarget, outbox, hvars>>
  /\ UNCHANGED <<now, mvars, rvars, cycles, fired, avars>>

\* handleNeighborPoll(): a packet parsed inside the 2 s wait (lines 251-278).
AwaitRx(n, f, r) ==
  /\ Listening(n)
  /\ spc[n] = "await"
  /\ IF f.type = MSG_ACK /\ f.m1 = pollTarget[n]
     THEN /\ outbox' = [outbox EXCEPT ![n] = <<ReportFrame(n, pollTarget[n], ToI8(r))>>]
          /\ spc' = [spc EXCEPT ![n] = "loop"]
     ELSE UNCHANGED <<outbox, spc>>
  /\ UNCHANGED <<alive, myNodeID, totalNodes, canDirectComm, directRSSI, slaveMasterMAC,
                 neighbors, bestHopMAC, bestPathRSSI, pollTarget, hvars>>
  /\ UNCHANGED <<now, mvars, cycles, fired, avars>>

\* Faulty variant of AwaitTimeout: the wait has no time limit.
AwaitTimeout_Never(n) ==
  /\ spc[n] = "await"
  /\ FALSE
  /\ UNCHANGED vars

\* handleNeighborPoll(): the 2 s wait ends without the reply.
AwaitTimeout(n) ==
  /\ Listening(n)
  /\ spc[n] = "await"
  /\ spc' = [spc EXCEPT ![n] = "loop"]
  /\ UNCHANGED <<alive, myNodeID, totalNodes, canDirectComm, directRSSI, slaveMasterMAC,
                 neighbors, bestHopMAC, bestPathRSSI, pollTarget, outbox, hvars>>
  /\ UNCHANGED <<now, mvars, rvars, cycles, fired, avars>>

\* void addOrUpdateNeighbor(mac, nodeID, rssi, canReachMaster)
addOrUpdateNeighbor(nbrs, mac, nodeID, rssi, canReachMaster) ==
  IF \E i \in 1 .. Len(nbrs) : nbrs[i].macAddress = mac
  THEN LET i == Min({k \in 1 .. Len(nbrs) : nbrs[k].macAddress = mac})
       IN [nbrs EXCEPT ![i] = [@ EXCEPT !.rssi = rssi, !.canReachMaster = canReachMaster]]
  ELSE IF Len(nbrs) < MAX_NEIGHBORS
       THEN Append(nbrs, [macAddress |-> mac, nodeID |-> nodeID, rssi |-> rssi,
                          canReachMaster |-> canReachMaster])
       ELSE nbrs

\* Faulty variant of UsableRelay: the poller's flag is not looked at.
UsableRelay_AnyPoller(pollerCanDirect, selfDirect) == ~selfDirect

\* handleDirectCommQuery(): if (pollerCanDirect && !canDirectComm)
UsableRelay(pollerCanDirect, selfDirect) == pollerCanDirect # 0 /\ ~selfDirect

\* Faulty variant of BetterRelay: an equal candidate is taken too.
BetterRelay_OrEqual(potentialPathRSSI, best) == potentialPathRSSI >= best

\* handleDirectCommQuery(): if (potentialPathRSSI > bestPathRSSI)
BetterRelay(potentialPathRSSI, best) == potentialPathRSSI > best

\* void handleDirectCommQuery()
handleDirectCommQuery(n, f, r) ==
  /\ f.type = MSG_DIRECT_COMM
  /\ IF f.m2 = n
     THEN LET pollerRSSI == ToI8(r)
              usable == UsableRelay(f.b1, canDirectComm[n])
              potentialPathRSSI == directRSSI[n] + pollerRSSI
          IN /\ neighbors' = [neighbors EXCEPT ![n] =
                                IF usable THEN addOrUpdateNeighbor(@, f.m1, 0, pollerRSSI, TRUE)
                                ELSE @]
             /\ IF usable /\ BetterRelay(potentialPathRSSI, bestPathRSSI[n])
                THEN /\ bestPathRSSI' = [bestPathRSSI EXCEPT ![n] = potentialPathRSSI]
                     /\ bestHopMAC' = [bestHopMAC EXCEPT ![n] = f.m1]
                ELSE UNCHANGED <<bestPathRSSI, bestHopMAC>>
             /\ outbox' = [outbox EXCEPT ![n] = <<DirectAckFrame(n, Flag(canDirectComm[n]))>>]
             /\ probed' = IF usable /\ failed # {} /\ f.m1 \notin failed
                          THEN probed \cup {n} ELSE probed
     ELSE UNCHANGED <<neighbors, bestPathRSSI, bestHopMAC, outbox, probed>>
  /\ UNCHANGED <<alive, myNodeID, totalNodes, canDirectComm, directRSSI, slaveMasterMAC,
                 spc, pollTarget, failed, renewed>>

\* Faulty variant of ForwardWanted: the slave need not be Direct.
ForwardWanted_Any(selfDirect, senderMAC, myMAC) == senderMAC # myMAC

\* handleDataForwarding(): if (canDirectComm && memcmp(senderMAC, myMAC, 6) != 0)
ForwardWanted(selfDirect, senderMAC, myMAC) == selfDirect /\ senderMAC # myMAC

\* Faulty variant of handleDataForwarding: the forwarder puts its own
\* address in the frame.
handleDataForwarding_Relabel(n, f) ==
  /\ f.type = MSG_DATA
  /\ outbox' = [outbox EXCEPT ![n] =
                  IF ForwardWanted(canDirectComm[n], f.m1, n)
                  THEN <<DataFrame(n, f.b1, Min({f.fwd + 1, MaxFwd}))>>
                  ELSE <<>>]
  /\ UNCHANGED <<alive, myNodeID, totalNodes, canDirectComm, directRSSI, slaveMasterMAC,
                 neighbors, bestHopMAC, bestPathRSSI, spc, pollTarget, hvars>>

\* void handleDataForwarding()
handleDataForwarding(n, f) ==
  /\ f.type = MSG_DATA
  /\ outbox' = [outbox EXCEPT ![n] =
                  IF ForwardWanted(canDirectComm[n], f.m1, n)
                  THEN <<DataFrame(f.m1, f.b1, Min({f.fwd + 1, MaxFwd}))>>
                  ELSE <<>>]
  /\ UNCHANGED <<alive, myNodeID, totalNodes, canDirectComm, directRSSI, slaveMasterMAC,
                 neighbors, bestHopMAC, bestPathRSSI, spc, pollTarget, hvars>>

\* void handleIncomingMessage(int): the switch on the type tag.
SlaveRx(n, f, r) ==
  /\ Listening(n)
  /\ spc[n] = "loop"
  /\ \/ handleDiscovery(n, f, r)
     \/ handleIDAssignment(n, f)
     \/ handleNeighborPoll(n, f)
     \/ handleDirectCommQuery(n, f, r)
     \/ handleDataForwarding(n, f)
     \/ /\ f.type \in {MSG_RSSI_REPORT, MSG_ACK, MSG_HEARTBEAT}
        /\ UNCHANGED <<svars, hvars>>
  /\ UNCHANGED <<now, mvars, cycles, fired, avars>>

\* The frames a timer of a slave's loop() starts, forwarded or not.
TimerFrame(f) == f.type \in {MSG_DATA, MSG_HEARTBEAT}

\* No frame of the discovery cycle is on the air or about to be sent.
CycleQuiet ==
  /\ IF air = <<>> THEN TRUE ELSE TimerFrame(air[1])
  /\ \A m \in Slaves : IF outbox[m] = <<>> THEN TRUE ELSE TimerFrame(outbox[m][1])

\* Every prober is back in its loop(): handleNeighborPoll() returns at most
\* 100 + 500 + 2000 ms after the poll (lines 237-251), the collection window
\* of the master ends 2000 + 5000 ms after its last poll (part_002 lines
\* 153, 273-274).
ProbersBack == \A m \in alive : spc[m] = "loop"

\* No frame is on the air and no handler has one to send.
ChannelIdle == air = <<>> /\ \A m \in Slaves : outbox[m] = <<>>

\* loop(): if (myNodeID > 0 && millis() - lastTempSend > 10000) ...
TelemetryGate(id) == id > 0

\* void sendTemperatureData(float): if (myNodeID == 0) return; then the
\* same DATA frame on either branch.
sendTemperatureData(n, temperature) ==
  IF myNodeID[n] = 0 THEN <<>> ELSE <<DataFrame(n, temperature, 0)>>

\* loop(): the telemetry timer fires with the sample v, in a pass of the
\* slave's loop(), whatever the channel and the master are doing.
SendTemperature(n, v) ==
  /\ Listening(n)
  /\ spc[n] = "loop"
  /\ TelemetryGate(myNodeID[n])
  /\ outbox' = [outbox EXCEPT ![n] = sendTemperatureData(n, v)]
  /\ UNCHANGED <<alive, myNodeID, totalNodes, canDirectComm, directRSSI, slaveMasterMAC,
                 neighbors, bestHopMAC, bestPathRSSI, spc, pollTarget, hvars>>
  /\ UNCHANGED <<now, mvars, rvars, cycles, avars>>

\* loop(): if (myNodeID > 0 && millis() - lastWake > WAKE_INTERVAL)
HeartbeatGate(id) == id > 0

\* Faulty variant of sendHeartbeat: no test of canDirectComm.
sendHeartbeat_Always(n) == <<HeartbeatFrame(n)>>

\* void sendHeartbeat()
sendHeartbeat(n) == IF canDirectComm[n] THEN <<HeartbeatFrame(n)>> ELSE <<>>

\* loop(): the heartbeat timer fires.
SendHeartbeat(n) ==
  /\ Listening(n)
  /\ spc[n] = "loop"
  /\ HeartbeatGate(myNodeID[n])
  /\ outbox' = [outbox EXCEPT ![n] = sendHeartbeat(n)]
  /\ UNCHANGED <<alive, myNodeID, totalNodes, canDirectComm, directRSSI, slaveMasterMAC,
                 neighbors, bestHopMAC, bestPathRSSI, spc, pollTarget, hvars>>
  /\ UNCHANGED <<now, mvars, rvars, cycles, avars>>

\* LoRa.endPacket(): the frame of the running handler goes out.
SlaveTransmit(n) ==
  /\ n \in alive
  /\ outbox[n] # <<>>
  /\ OnAir(outbox[n][1], n)
  /\ outbox' = [outbox EXCEPT ![n] = <<>>]
  /\ UNCHANGED <<alive, myNodeID, totalNodes, canDirectComm, directRSSI, slaveMasterMAC,
                 neighbors, bestHopMAC, bestPathRSSI, spc, pollTarget, hvars>>
  /\ UNCHANGED <<now, mvars, cycles, fired, avars>>

\* The slave loses power between two transmissions, the frame its handler
\* was about to send unsent, and stays silent.
Fail(n) ==
  /\ n \in alive
  /\ air = <<>>
  /\ Cardinality(failed) < MaxFailures
  /\ alive' = alive \ {n}
  /\ failed' = failed \cup {n}
  /\ renewed' = {}
  /\ probed' = {}
  /\ outbox' = [outbox EXCEPT ![n] = <<>>]
  /\ UNCHANGED <<myNodeID, totalNodes, canDirectComm, directRSSI, slaveMasterMAC,
                 neighbors, bestHopMAC, bestPathRSSI, spc, pollTarget>>
  /\ UNCHANGED <<now, mvars, rvars, cycles, fired, avars>>

----------------------------------------------------------------------------
(* Initial state: the globals as initialised, setup() about to call        *)
(* performDiscovery().                                                     *)

InitMaster ==
  /\ now = SETUP_DELAY
  /\ nodes = <<>>
  /\ lastDiscovery = 0
  /\ lastCheck = 0
  /\ startTime = 0
  /\ mpc = "setup"
  /\ mret = "setup"
  /\ mq = <<>>
  /\ air = <<>>
  /\ pending = {}
  /\ cycles = 0
  /\ fired = 0
  /\ acked = {}
  /\ dups = {}
  /\ failed = {}
  /\ renewed = {}
  /\ probed = {}

InitSlaves ==
  /\ myNodeID = [n \in Slaves |-> 0]
  /\ totalNodes = [n \in Slaves |-> 0]
  /\ canDirectComm = [n \in Slaves |-> FALSE]
  /\ directRSSI = [n \in Slaves |-> 0]
  /\ slaveMasterMAC = [n \in Slaves |-> ZeroMAC]
  /\ neighbors = [n \in Slaves |-> <<>>]
  /\ bestHopMAC = [n \in Slaves |-> ZeroMAC]
  /\ bestPathRSSI = [n \in Slaves |-> INITIAL_BEST_PATH]
  /\ spc = [n \in Slaves |-> "loop"]
  /\ pollTarget = [n \in Slaves |-> ZeroMAC]
  /\ outbox = [n \in Slaves |-> <<>>]

----------------------------------------------------------------------------
(* MasterSpec: the master running alone. Its radio environment hands it    *)
(* any frame a slave can send, any number of times, in any order.          *)

SlaveFrames ==
  {AckFrame(a) : a \in Slaves}
  \cup {ReportFrame(p, t, h) : p \in Slaves, t \in Slaves, h \in HopRSSI}
  \cup {DataFrame(a, v, 0) : a \in Slaves, v \in TempVals}
  \cup {HeartbeatFrame(a) : a \in Slaves}

\* A slave reports on a peer, never on itself.
EnvFrames == {f \in SlaveFrames : f.type = MSG_RSSI_REPORT => f.m1 # f.m2}

\* The readings that matter: only an ACK's or a HEARTBEAT's RSSI is read.
EnvRSSI(f) == IF f.type \in {MSG_ACK, MSG_HEARTBEAT} THEN MasterRSSI ELSE {Max(MasterRSSI)}

MasterInit == InitMaster /\ InitSlaves /\ alive = {}

\* The last millis() at which the timed master starts a discovery cycle.
Horizon == SETUP_DELAY + MaxTicks * TickMs

\* The last millis() at which the master of MasterSpec and AirSpec passes a
\* test of loop(): the cycle of setup() and one periodic cycle.
MasterHorizon == SETUP_DELAY + POLL_INTERVAL

MasterNext ==
  \/ Setup /\ UNCHANGED <<cycles, fired>>
  \/ DiscoveryTime <= MasterHorizon /\ PeriodicDiscovery /\ UNCHANGED <<cycles, fired>>
  \/ OpenDiscoveryWindow
  \/ \E f \in EnvFrames : \E r \in EnvRSSI(f) : DiscoveryRx(f, r) /\ UNCHANGED rvars
  \/ EndDiscoveryWindow
  \/ MasterTransmit
  \/ BeginCollect
  \/ \E f \in EnvFrames : CollectRx(f) /\ UNCHANGED rvars
  \/ EndCollect
  \/ \E f \in EnvFrames : \E r \in EnvRSSI(f) : LoopRx(f, r) /\ UNCHANGED rvars
  \/ HealthTime <= MasterHorizon /\ HealthCheck

MasterSpec == MasterInit /\ [][MasterNext]_vars

----------------------------------------------------------------------------
(* TimedSpec: the master running alone, with frames arriving also inside   *)
(* its waits: while the master polls parsePacket(), in a window or in      *)
(* loop(), millis() advances in ticks of TickMs up to the deadline of the  *)
(* wait, which the actions of the master then meet: a window to the        *)
(* millisecond, a test of loop() at the pass that follows.                 *)

TimedAddrs == 1 .. 2

TimedFrames ==
  {AckFrame(a) : a \in TimedAddrs}
  \cup {HeartbeatFrame(a) : a \in TimedAddrs}
  \cup {DataFrame(a, v, 0) : a \in TimedAddrs, v \in TempVals}

TimedRSSI == {Max(MasterRSSI)}

\* The millis() at which the wait the master is in ends.
WaitDeadline ==
  IF mpc = "discovery" THEN WindowEnd(DISCOVERY_TIMEOUT)
  ELSE IF mpc = "collect" THEN WindowEnd(COLLECT_WINDOW)
  ELSE IF mpc = "loop" THEN Min({DiscoveryTime, HealthTime})
  ELSE now

\* The master polls parsePacket() for TickMs more, short of its deadline.
Tick ==
  /\ now + TickMs < WaitDeadline
  /\ now' = now + TickMs
  /\ UNCHANGED <<mvars, rvars, svars, cycles, fired, avars, hvars>>

TimedNext ==
  \/ Tick
  \/ Setup /\ UNCHANGED <<cycles, fired>>
  \/ DiscoveryTime <= Horizon /\ PeriodicDiscovery /\ UNCHANGED <<cycles, fired>>
  \/ OpenDiscoveryWindow
  \/ DiscoveryWindowOpen /\ \E f \in TimedFrames, r \in TimedRSSI : DiscoveryRx(f, r) /\ UNCHANGED rvars
  \/ EndDiscoveryWindow
  \/ MasterTransmit
  \/ BeginCollect
  \/ CollectWindowOpen /\ \E f \in TimedFrames : CollectRx(f) /\ UNCHANGED rvars
  \/ EndCollect
  \/ \E f \in TimedFrames, r \in TimedRSSI : LoopRx(f, r) /\ UNCHANGED rvars
  \/ HealthCheck

TimedSpec == MasterInit /\ [][TimedNext]_vars

----------------------------------------------------------------------------
(* Spec: the master and the slaves on one channel. The slaves' clocks are  *)
(* not tracked: their timers expire at any moment, and the frames they     *)
(* start may be under way when a wait of the master runs out. The frames   *)
(* of a discovery cycle are not: the handler chain a frame of the master   *)
(* starts lasts at most 2.7 s (lora_slave.ino:180, 237-251, 321), and the  *)
(* master's next deadline is at least 5 s after the frame (part_002:125-   *)
(* 130, 153, 274). A prober hears nothing in its delay(500), which covers  *)
(* the reply to its query and the exchange of the master's next poll, and  *)
(* it is back in loop() when the collection window ends. A run has         *)
(* MaxFirings timer expiries and MaxFailures failures, the failures before *)
(* its last cycle starts, and ends in the loop() that follows its last     *)
(* cycle, before the next gate of checkNodeHealth() opens.                 *)

Init == InitMaster /\ InitSlaves /\ alive = Slaves

Hears(n) == Turn(n) /\ Consume(n)

\* One more of the MaxFirings timer expiries of a run.
Timer == fired < MaxFirings /\ fired' = fired + 1

Next ==
  \/ Setup /\ cycles' = cycles + 1 /\ UNCHANGED fired
  \/ CycleQuiet /\ cycles < MaxCycles /\ PeriodicDiscovery /\ cycles' = cycles + 1 /\ UNCHANGED fired
  \/ OpenDiscoveryWindow
  \/ Hears(masterMAC) /\ DiscoveryRx(air[1], Link(air[2], masterMAC))
  \/ CycleQuiet /\ EndDiscoveryWindow
  \/ MasterTransmit
  \/ BeginCollect
  \/ Hears(masterMAC) /\ CollectRx(air[1])
  \/ CycleQuiet /\ ProbersBack /\ EndCollect
  \/ Hears(masterMAC) /\ LoopRx(air[1], Link(air[2], masterMAC))
  \/ (HealthCheckDue \/ (CycleQuiet /\ cycles < MaxCycles)) /\ HealthCheck
  \/ \E n \in Radios : Lose(n)
  \/ \E n \in Slaves : Hears(n) /\ SlaveRx(n, air[1], Link(air[2], n))
  \/ \E n \in Slaves : Hears(n) /\ AwaitRx(n, air[1], Link(air[2], n))
  \/ \E n \in Slaves : spc[n] = "poll" /\ ~ReplyPending(n) /\ OpenAwait(n)
  \/ \E n \in Slaves : CycleQuiet /\ AwaitTimeout(n)
  \/ \E n \in Slaves, v \in TempVals : Timer /\ SendTemperature(n, v)
  \/ \E n \in Slaves : Timer /\ SendHeartbeat(n)
  \/ \E n \in Slaves : SlaveTransmit(n)
  \/ \E n \in Slaves : cycles < MaxCycles /\ Fail(n)

Spec == Init /\ [][Next]_vars

----------------------------------------------------------------------------

----------------------------------------------------------------------------
(* SlaveSpec: one slave running alone. Its radio environment hands it any  *)
(* frame the master or a peer can send, with any reading, any number of    *)
(* times, in any order; what the slave sends reaches nobody.               *)

Me == Min(Slaves)

Peers == Slaves \ {Me}

SlaveRSSI == {-125, -110, -40}

SlaveTemps == {215, 230}

PeerFrames ==
  {DirectCommFrame(p, Me, flag) : p \in Peers, flag \in {0, 1}}
  \cup {DirectCommFrame(Max(Peers), Min(Peers), 1)}
  \cup {DirectAckFrame(Min(Peers), flag) : flag \in {0, 1}}
  \cup {DataFrame(a, v, 0) : a \in {Me, Min(Peers)}, v \in SlaveTemps}
  \cup {HeartbeatFrame(Min(Peers))}

MasterFrames ==
  {DiscoveryFrame}
  \cup {AssignFrame(a, a, NumSlaves) : a \in {Me, Min(Peers)}}
  \cup {PollFrame(Me, Min(Peers)), PollFrame(Min(Peers), Max(Peers))}

\* The node a frame of the environment comes from.
EnvSender(f) ==
  IF f \in MasterFrames THEN masterMAC
  ELSE IF f.m1 = Me THEN Min(Peers) ELSE f.m1

\* The node from of the environment sends frame f to the node under study.
EnvSend(f, from, to) ==
  /\ air = <<>>
  /\ air' = <<f, from>>
  /\ pending' = {to}
  /\ UNCHANGED <<now, mvars, svars, cycles, fired, avars, hvars>>

SlaveInit ==
  /\ InitSlaves
  /\ alive = {Me}
  /\ now = SETUP_DELAY
  /\ nodes = <<>>
  /\ lastDiscovery = 0
  /\ lastCheck = 0
  /\ startTime = 0
  /\ mpc = "loop"
  /\ mret = "setup"
  /\ mq = <<>>
  /\ air = <<>>
  /\ pending = {}
  /\ cycles = 0
  /\ fired = 0
  /\ acked = {}
  /\ dups = {}
  /\ failed = {}
  /\ renewed = {}
  /\ probed = {}

SlaveNext ==
  \/ \E f \in MasterFrames \cup PeerFrames : Listening(Me) /\ EnvSend(f, EnvSender(f), Me)
  \/ Hears(Me) /\ \E r \in SlaveRSSI : SlaveRx(Me, air[1], r)
  \/ Hears(Me) /\ \E r \in SlaveRSSI : AwaitRx(Me, air[1], r)
  \/ OpenAwait(Me)
  \/ AwaitTimeout(Me)
  \/ \E n \in {Me, masterMAC} : Lose(n)
  \/ \E v \in SlaveTemps : SendTemperature(Me, v) /\ UNCHANGED fired
  \/ SendHeartbeat(Me) /\ UNCHANGED fired
  \/ SlaveTransmit(Me)

SlaveSpec == SlaveInit /\ [][SlaveNext]_vars

----------------------------------------------------------------------------
(* FairSpec: a node running alone, the master as in MasterSpec or a slave  *)
(* as in SlaveSpec, in a radio environment that hands it any frame at any  *)
(* moment or none at all. What a node does by its own clock is weakly      *)
(* fair: a delay or a window of the master ends and its queued frame goes  *)
(* out, a frame a slave has to send goes out, its delay(500) and its 2 s   *)
(* wait end, and a frame leaves the air. The arrival of a frame is never   *)
(* forced.                                                                 *)

FairInit == MasterInit \/ SlaveInit

FairNext ==
  \/ alive = {} /\ MasterNext
  \/ alive # {} /\ SlaveNext

\* performDiscovery(): the delays and the windows run out (lines 125-153,
\* 247, 265, 274).
Timers ==
  \/ OpenDiscoveryWindow
  \/ EndDiscoveryWindow
  \/ MasterTransmit
  \/ BeginCollect
  \/ EndCollect

\* The slave: its frame goes out, delay(500) and the 2 s wait run out.
Transmits ==
  \/ SlaveTransmit(Me)
  \/ OpenAwait(Me)
  \/ AwaitTimeout(Me)

FairSpec ==
  /\ FairInit
  /\ [][FairNext]_vars
  /\ WF_vars(Timers)
  /\ WF_vars(Transmits)
  /\ WF_vars(\E n \in Radios : Lose(n))

----------------------------------------------------------------------------
(* AirSpec: the master running alone, as in MasterSpec, with the frame it  *)
(* is about to parse held on the air, so that a step of a handler can be   *)
(* compared with the frame handled. A frame that the master misses, while  *)
(* it is busy with its own transmissions and delays or by loss, is a frame *)
(* the environment does not send.                                          *)

AirInit == MasterInit

AirNext ==
  \/ Setup /\ UNCHANGED <<cycles, fired>>
  \/ air = <<>> /\ DiscoveryTime <= MasterHorizon /\ PeriodicDiscovery /\ UNCHANGED <<cycles, fired>>
  \/ OpenDiscoveryWindow
  \/ air = <<>> /\ HealthTime <= MasterHorizon /\ HealthCheck
  \/ \E f \in EnvFrames : mpc \in {"discovery", "collect", "loop"} /\ EnvSend(f, f.m1, masterMAC)
  \/ Hears(masterMAC) /\ \E r \in EnvRSSI(air[1]) : DiscoveryRx(air[1], r)
  \/ air = <<>> /\ EndDiscoveryWindow
  \/ MasterTransmit
  \/ air = <<>> /\ BeginCollect
  \/ Hears(masterMAC) /\ CollectRx(air[1])
  \/ air = <<>> /\ EndCollect
  \/ Hears(masterMAC) /\ \E r \in EnvRSSI(air[1]) : LoopRx(air[1], r)

AirSpec == AirInit /\ [][AirNext]_vars

----------------------------------------------------------------------------
(* NodeSpec: one node running alone, either the master (as in AirSpec) or  *)
(* a slave (as in SlaveSpec), with the frame it is about to parse held on  *)
(* the air.                                                                *)

NodeInit == AirInit \/ SlaveInit

NodeNext ==
  \/ alive = {} /\ AirNext
  \/ alive # {} /\ SlaveNext

NodeSpec == NodeInit /\ [][NodeNext]_vars

----------------------------------------------------------------------------
(* PollSpec: steps 3 to 5 of performDiscovery() applied to any table the   *)
(* response window can leave: up to MaxTable distinct addresses in the     *)
(* order their acknowledgements arrived, with the reading of each.         *)

MaxTable == 5

TableAddrs == (1 .. MaxTable + 1) \ {masterMAC}

\* The reading of the acknowledgement of address a.
AckRSSI(a) == IF a % 2 = 1 THEN Max(MasterRSSI) ELSE Min(MasterRSSI)

AckedRecord(a) ==
  [macAddress |-> a, rssi |-> AckRSSI(a), hopCount |-> 1, viaNode |-> 0,
   lastSeen |-> SETUP_DELAY + DISCOVERY_SETTLE, active |-> TRUE, pathRSSI |-> AckRSSI(a)]

\* The sequences of n distinct addresses.
Arrivals(n) ==
  {s \in [1 .. n -> TableAddrs] : \A i, j \in 1 .. n : i # j => s[i] # s[j]}

WindowTables ==
  UNION {{[i \in 1 .. n |-> AckedRecord(s[i])] : s \in Arrivals(n)} : n \in 0 .. MaxTable}

PollInit ==
  /\ InitSlaves
  /\ alive = {}
  /\ now = SETUP_DELAY + DISCOVERY_SETTLE
  /\ nodes \in WindowTables
  /\ lastDiscovery = 0
  /\ lastCheck = 0
  /\ startTime = SETUP_DELAY + DISCOVERY_SETTLE
  /\ mpc = "discovery"
  /\ mret = "setup"
  /\ mq = <<>>
  /\ air = <<>>
  /\ pending = {}
  /\ cycles = 0
  /\ fired = 0
  /\ acked = {nodes[i].macAddress : i \in 1 .. Len(nodes)}
  /\ dups = {}
  /\ failed = {}
  /\ renewed = {}
  /\ probed = {}

PollNext ==
  \/ EndDiscoveryWindow
  \/ MasterTransmit
  \/ BeginCollect
  \/ EndCollect

PollSpec == PollInit /\ [][PollNext]_vars

----------------------------------------------------------------------------
(* CapSpec: the tables at their capacity. The master is in its response    *)
(* window with a table of MAX_NODES - 1 or MAX_NODES records, a slave that *)
(* is not Direct has MAX_NEIGHBORS - 1 or MAX_NEIGHBORS neighbours;        *)
(* acknowledgements and queries arrive from addresses with and without an  *)
(* entry.                                                                  *)

\* The i-th address of the network, the master's left out.
CapAddr(i) == IF i < masterMAC THEN i ELSE i + 1

CapAddrs(lo, hi) == {CapAddr(i) : i \in lo .. hi}

CapTable(n) == [i \in 1 .. n |-> AckedRecord(CapAddr(i))]

CapNeighbors(n) ==
  [i \in 1 .. n |-> [macAddress |-> CapAddr(i + 1), nodeID |-> 0,
                     rssi |-> Max(HopRSSI), canReachMaster |-> TRUE]]

\* The addresses that acknowledge: two with a record, two without.
AckSenders == {CapAddr(1), CapAddr(MAX_NODES - 1)} \cup CapAddrs(MAX_NODES + 1, MAX_NODES + 2)

\* The Direct peers that query the slave: one known to it, two new.
QuerySenders == {CapAddr(2)} \cup CapAddrs(MAX_NEIGHBORS + 2, MAX_NEIGHBORS + 3)

CapInit ==
  /\ alive = {Me}
  /\ now = SETUP_DELAY + DISCOVERY_SETTLE
  /\ nodes \in {CapTable(MAX_NODES - 1), CapTable(MAX_NODES)}
  /\ lastDiscovery = 0
  /\ lastCheck = 0
  /\ startTime = SETUP_DELAY + DISCOVERY_SETTLE
  /\ mpc = "discovery"
  /\ mret = "setup"
  /\ mq = <<>>
  /\ air = <<>>
  /\ pending = {}
  /\ cycles = 0
  /\ fired = 0
  /\ acked = {nodes[i].macAddress : i \in 1 .. Len(nodes)}
  /\ dups = {}
  /\ failed = {}
  /\ renewed = {}
  /\ probed = {}
  /\ myNodeID = [n \in Slaves |-> IF n = Me THEN NumSlaves ELSE 0]
  /\ totalNodes = [n \in Slaves |-> IF n = Me THEN NumSlaves ELSE 0]
  /\ canDirectComm = [n \in Slaves |-> FALSE]
  /\ directRSSI = [n \in Slaves |-> IF n = Me THEN Link(masterMAC, NumSlaves) ELSE 0]
  /\ slaveMasterMAC = [n \in Slaves |-> IF n = Me THEN masterMAC ELSE ZeroMAC]
  /\ neighbors \in {[n \in Slaves |-> IF n = Me THEN CapNeighbors(k) ELSE <<>>] :
                      k \in {MAX_NEIGHBORS - 1, MAX_NEIGHBORS}}
  /\ bestHopMAC = [n \in Slaves |-> IF n = Me THEN CapAddr(2) ELSE ZeroMAC]
  /\ bestPathRSSI = [n \in Slaves |->
                       IF n = Me THEN Link(masterMAC, NumSlaves) + Max(HopRSSI)
                       ELSE INITIAL_BEST_PATH]
  /\ spc = [n \in Slaves |-> "loop"]
  /\ pollTarget = [n \in Slaves |-> ZeroMAC]
  /\ outbox = [n \in Slaves |-> <<>>]

CapNext ==
  \/ \E a \in AckSenders : EnvSend(AckFrame(a), a, masterMAC)
  \/ Hears(masterMAC) /\ \E r \in MasterRSSI : DiscoveryRx(air[1], r)
  \/ \E a \in QuerySenders : Listening(Me) /\ EnvSend(DirectCommFrame(a, Me, 1), a, Me)
  \/ Hears(Me) /\ \E r \in HopRSSI : SlaveRx(Me, air[1], r)
  \/ SlaveTransmit(Me)

CapSpec == CapInit /\ [][CapNext]_vars

----------------------------------------------------------------------------
(* Properties *)

IsAssign(f) == f.type = MSG_ASSIGN_ID

\* C2: when the discovery window closes, the ASSIGN_ID frames queued carry
\* the identifiers 1..N in order, one per acknowledged address, each with
\* the total N; a stronger direct RSSI gets a smaller identifier, and among
\* equal RSSI the address acknowledged first gets the smaller identifier.
C2_IdsRankByRSSI ==
  [][(mpc = "discovery" /\ mpc' = "assign") =>
       LET n == Len(nodes)
           ids == SelectSeq(mq', IsAssign)
           arrival(mac) == findNode(nodes, mac)
           rssiOf(mac) == nodes[findNode(nodes, mac) + 1].rssi
       IN /\ n <= MAX_NODES
          /\ Len(ids) = n
          /\ \A k \in 1 .. n : ids[k].b1 = k /\ ids[k].b2 = n /\ nodes'[k].macAddress = ids[k].m2
          /\ {ids[k].m2 : k \in 1 .. n} = {nodes[i].macAddress : i \in 1 .. n}
          /\ \A k, l \in 1 .. n :
               k < l => \/ rssiOf(ids[k].m2) > rssiOf(ids[l].m2)
                        \/ /\ rssiOf(ids[k].m2) = rssiOf(ids[l].m2)
                           /\ arrival(ids[k].m2) < arrival(ids[l].m2)]_vars

\* C2 witness: three nodes ranked, the first two tied and kept in arrival
\* order although the later-ranked address is the smaller one.
C2_Witness ==
  /\ mpc = "assign"
  /\ Len(nodes) = 3
  /\ Len(SelectSeq(mq, IsAssign)) = 3
  /\ nodes[1].rssi = nodes[2].rssi
  /\ nodes[2].rssi > nodes[3].rssi
  /\ nodes[1].macAddress > nodes[2].macAddress

\* C3: the records of the table have pairwise distinct addresses, and in
\* the discovery window nodeCount is the number of distinct addresses
\* acknowledged so far (up to capacity).
C3_OneRecordPerAddress ==
  /\ \A i, j \in 1 .. nodeCount : i # j => nodes[i].macAddress # nodes[j].macAddress
  /\ mpc = "discovery" =>
       /\ nodeCount = Min({Cardinality(acked), MAX_NODES})
       /\ Cardinality(acked) <= MAX_NODES => {nodes[i].macAddress : i \in 1 .. nodeCount} = acked

\* C3 witness: two addresses acknowledged, one of them twice, two records.
C3_Witness ==
  /\ mpc = "discovery"
  /\ Cardinality(acked) = 2
  /\ dups # {}
  /\ nodeCount = 2

\* C9: every record has hopCount 1 or 2, and viaNode is 0 exactly when
\* hopCount is 1.
C9_HopAndVia ==
  \A i \in 1 .. nodeCount :
    /\ nodes[i].hopCount \in {1, 2}
    /\ (nodes[i].viaNode = 0) <=> (nodes[i].hopCount = 1)

\* C9 witness: a table with a relayed record beside direct ones.
C9_Witness ==
  /\ nodeCount = 3
  /\ \E i, j \in 1 .. nodeCount :
       /\ nodes[i].hopCount = 2 /\ nodes[i].viaNode = 1
       /\ nodes[j].hopCount = 1 /\ nodes[j].viaNode = 0

\* C10: every active record was last seen no longer ago than the heartbeat
\* timeout.
C10_ActiveIsFresh ==
  \A i \in 1 .. nodeCount :
    nodes[i].active => now - nodes[i].lastSeen <= HEARTBEAT_TIMEOUT

\* C10 witness: between two liveness checks, an active record that was
\* last seen before the previous check and longer ago than POLL_INTERVAL.
C10_Witness ==
  /\ mpc = "loop"
  /\ \E i \in 1 .. nodeCount :
       /\ nodes[i].active
       /\ now - nodes[i].lastSeen > POLL_INTERVAL
       /\ nodes[i].lastSeen < lastCheck
       /\ lastCheck < now

HasToSend(n, types) == outbox[n] # <<>> /\ outbox[n][1].type \in types

\* C1: while the master collects routing reports, handling a frame never
\* lowers the stored path RSSI of any record of the table.
C1_ReportNeverLowersPath ==
  [][(mpc = "collect" /\ mpc' = "collect")
       => \A i \in 1 .. Len(nodes) : nodes'[i].pathRSSI >= nodes[i].pathRSSI]_vars

\* C4: a slave that is not Direct and has been given an identifier by a
\* discovery after a node failed does not keep the failed node as its relay.
C4_NoRouteViaFailedNode ==
  \A s \in renewed : ~canDirectComm[s] => bestHopMAC[s] \notin failed

\* C5: once a live Direct peer has queried a slave that is not Direct after
\* a node failed, the slave's chosen relay is not the failed node.
C5_FailoverOnQuery ==
  \A s \in probed : bestHopMAC[s] \notin failed

\* C6: a slave whose identifier is 0 has no DATA frame (its own or one it
\* forwards) and no HEARTBEAT frame to send, and none of its on the air.
C6_UnidentifiedSendsNoTelemetry ==
  /\ \A n \in Slaves : HasToSend(n, {MSG_DATA, MSG_HEARTBEAT}) => myNodeID[n] > 0
  /\ (air # <<>> /\ air[2] \in Slaves /\ air[1].type \in {MSG_DATA, MSG_HEARTBEAT})
       => myNodeID[air[2]] > 0

\* An unidentified slave that has joined a discovery is in its main loop
\* and has had its turn at a DATA frame of another slave.
C6_Witness ==
  \E n \in alive :
    /\ myNodeID[n] = 0
    /\ slaveMasterMAC[n] # ZeroMAC
    /\ spc[n] = "loop"
    /\ outbox[n] = <<>>
    /\ air # <<>>
    /\ air[1].type = MSG_DATA
    /\ air[2] # n
    /\ n \notin pending

\* C7: a slave whose identifier is 0 has no DIRECT_COMM query and no
\* RSSI_REPORT to send.
C7_UnidentifiedStaysOutOfRouting ==
  \A n \in Slaves : HasToSend(n, {MSG_DIRECT_COMM, MSG_RSSI_REPORT}) => myNodeID[n] > 0

\* C8: no slave forwards a DATA frame that has been forwarded before.
C8_ForwardedOnce ==
  \A n \in Slaves : HasToSend(n, {MSG_DATA}) => outbox[n][1].fwd <= 1

\* C12: when a slave handles a DIRECT_COMM query, its bestPathRSSI never
\* decreases, and its chosen relay changes only together with a strict
\* increase of bestPathRSSI.
C12_RelayOnlyImproves ==
  [][(air # <<>> /\ air[1].type = MSG_DIRECT_COMM)
       => \A n \in Slaves :
            /\ bestPathRSSI'[n] >= bestPathRSSI[n]
            /\ bestHopMAC'[n] # bestHopMAC[n] => bestPathRSSI'[n] > bestPathRSSI[n]]_vars

\* A slave that is not Direct has been queried by two Direct peers and has
\* one of them as its relay.
C12_Witness ==
  \E n \in Slaves :
    /\ ~canDirectComm[n]
    /\ Len(neighbors[n]) >= 2
    /\ bestHopMAC[n] \in Slaves \ {n}

\* C13: whatever frames arrive or fail to arrive, a node that is inside
\* performDiscovery() (the master, in a discovery cycle it has started) or
\* inside handleNeighborPoll() (a slave, in its delays or waiting for the
\* reply of its poll target) comes back to its loop().
C13_DiscoveryTerminates ==
  (\/ mpc \in {"broadcast", "discovery", "assign", "collect"}
   \/ spc[Me] \in {"poll", "await"})
    ~> (mpc = "loop" /\ spc[Me] = "loop")

\* The master, no frame having reached it, is back in loop() after the cycle
\* of setup() with an empty table.
C13_Witness ==
  /\ alive = {}
  /\ mpc = "loop"
  /\ now > SETUP_DELAY
  /\ nodes = <<>>
  /\ acked = {}

\* C14: the frame a slave has to send after handling a DATA frame is a DATA
\* frame with the origin address and the telemetry value of the frame handled.
C14_ForwardKeepsProvenance ==
  [][(air # <<>> /\ air[1].type = MSG_DATA)
       => \A n \in Slaves :
            (n \in pending /\ n \notin pending' /\ outbox[n] = <<>> /\ outbox'[n] # <<>>)
              => /\ outbox'[n][1].type = MSG_DATA
                 /\ outbox'[n][1].m1 = air[1].m1
                 /\ outbox'[n][1].b1 = air[1].b1]_vars

\* A slave has to forward a DATA frame of another slave that carries the
\* second of the sample values.
C14_Witness ==
  \E n \in Slaves :
    /\ HasToSend(n, {MSG_DATA})
    /\ outbox[n][1].m1 # n
    /\ outbox[n][1].fwd = 1
    /\ outbox[n][1].b1 = Max(SlaveTemps)

\* C15: a running slave that has a HEARTBEAT frame to send, or whose
\* HEARTBEAT frame is on the air, has canDirectComm set.
C15_HeartbeatOnlyDirect ==
  /\ \A n \in alive : HasToSend(n, {MSG_HEARTBEAT}) => canDirectComm[n]
  /\ (air # <<>> /\ air[2] \in alive /\ air[1].type = MSG_HEARTBEAT) => canDirectComm[air[2]]

\* The heartbeat timer of an identified slave that is not Direct can fire.
C15_Witness ==
  \E n \in alive :
    /\ ~canDirectComm[n]
    /\ ENABLED SendHeartbeat(n)

\* C16: the step that starts a discovery cycle leaves the table empty, and
\* while the response window of the cycle is open every record of the table
\* belongs to an address acknowledged in this window and has hopCount 1,
\* viaNode 0 and a pathRSSI equal to the direct reading just taken.
C16_CycleStartsAfresh ==
  /\ [](mpc = "discovery"
          => \A i \in 1 .. Len(nodes) :
               /\ nodes[i].macAddress \in acked
               /\ nodes[i].hopCount = 1
               /\ nodes[i].viaNode = 0
               /\ nodes[i].pathRSSI = nodes[i].rssi
               /\ nodes[i].pathRSSI \in MasterRSSI)
  /\ [][(mpc' # mpc /\ mpc' \in {"broadcast", "discovery"}) => nodes' = <<>>]_vars

\* A periodic cycle, started from loop() after the cycle of setup() had
\* filled the table, and an address has been acknowledged in its window.
C16_Witness ==
  /\ mpc = "discovery"
  /\ mret = "loop"
  /\ nodes # <<>>
  /\ now > POLL_INTERVAL

\* C17: when the master handles, in its collection window, an RSSI_REPORT
\* whose prober and target are in the table, with total the prober's direct
\* RSSI plus the reported hop RSSI: if the target's hopCount is above 1 or
\* total is strictly greater than the target's pathRSSI, the target's record
\* gets hopCount 2, the prober's identifier as viaNode and total as
\* pathRSSI, and nothing else changes; otherwise the table is unchanged.
C17_BestPathRule ==
  [][(mpc = "collect" /\ air # <<>> /\ air' = <<>> /\ air[1].type = MSG_RSSI_REPORT)
       => \A p \in 1 .. Len(nodes), t \in 1 .. Len(nodes) :
            (nodes[p].macAddress = air[1].m1 /\ nodes[t].macAddress = air[1].m2)
              => LET total == nodes[p].rssi + ToI8(air[1].b1)
                 IN IF nodes[t].hopCount > 1 \/ total > nodes[t].pathRSSI
                    THEN nodes' = [nodes EXCEPT ![t] =
                                     [@ EXCEPT !.hopCount = 2, !.viaNode = p,
                                               !.pathRSSI = total]]
                    ELSE nodes' = nodes]_vars

\* The example: a target with direct RSSI -110 routed through a prober with
\* direct RSSI -60 over a hop of -40, path RSSI -100.
C17_Witness ==
  /\ mpc = "collect"
  /\ \E p \in 1 .. Len(nodes), t \in 1 .. Len(nodes) :
       /\ nodes[t].rssi = -110
       /\ nodes[t].hopCount = 2
       /\ nodes[t].viaNode = p
       /\ nodes[t].pathRSSI = -100
       /\ nodes[p].rssi = -60

\* C20: when the master handles a DATA or a HEARTBEAT frame in loop(), the
\* table keeps its length and the address, hopCount, viaNode, pathRSSI and
\* active flag of every record in place; lastSeen changes at most in the
\* record of the frame's sender, and rssi at most in that record and only
\* for a HEARTBEAT.
C20_PassiveHandlersFrame ==
  [][(mpc = "loop" /\ air # <<>> /\ air' = <<>> /\ air[1].type \in {MSG_DATA, MSG_HEARTBEAT})
       => /\ Len(nodes') = Len(nodes)
          /\ \A i \in 1 .. Len(nodes) :
               /\ nodes'[i].macAddress = nodes[i].macAddress
               /\ nodes'[i].hopCount = nodes[i].hopCount
               /\ nodes'[i].viaNode = nodes[i].viaNode
               /\ nodes'[i].pathRSSI = nodes[i].pathRSSI
               /\ nodes'[i].active = nodes[i].active
               /\ nodes'[i].lastSeen # nodes[i].lastSeen
                    => nodes[i].macAddress = air[1].m1
               /\ nodes'[i].rssi # nodes[i].rssi
                    => (nodes[i].macAddress = air[1].m1 /\ air[1].type = MSG_HEARTBEAT)]_vars

\* The master is in loop() with a HEARTBEAT to parse from the sender of a
\* two-hop record.
C20_Witness ==
  /\ mpc = "loop"
  /\ air # <<>>
  /\ air[1].type = MSG_HEARTBEAT
  /\ \E i \in 1 .. Len(nodes) :
       /\ nodes[i].macAddress = air[1].m1
       /\ nodes[i].hopCount = 2

\* C18: the step by which an identified slave is classified Relayed in a new
\* discovery cycle, having been Direct or having had another identifier
\* before, leaves it with no chosen relay and with bestPathRSSI at its
\* initial value.
C18_RediscoveryResetsRelay ==
  [][\A n \in Slaves :
       (/\ myNodeID[n] > 0
        /\ ~canDirectComm'[n]
        /\ (canDirectComm[n] \/ myNodeID'[n] # myNodeID[n]))
         => (bestHopMAC'[n] = ZeroMAC /\ bestPathRSSI'[n] = INITIAL_BEST_PATH)]_vars

\* C19: the step by which a slave handles its ID assignment and gets its
\* identifier or changes class leaves it Direct exactly when its direct RSSI
\* to the master is -100 dBm or better; at -110 it is left Relayed.
C19_DirectAtThreshold ==
  [][\A n \in Slaves :
       (myNodeID'[n] # myNodeID[n] \/ canDirectComm'[n] # canDirectComm[n])
         => (canDirectComm'[n] <=> directRSSI[n] >= -100)]_vars

\* The state of the slave with address n.
SlaveState(n) ==
  <<myNodeID[n], totalNodes[n], canDirectComm[n], directRSSI[n], slaveMasterMAC[n],
    neighbors[n], bestHopMAC[n], bestPathRSSI[n], spc[n], pollTarget[n], outbox[n]>>

\* The address an ASSIGN_ID, POLL_NEIGHBOR or DIRECT_COMM frame is meant for.
Addressee(f) == f.m2

\* The addresses a DATA, HEARTBEAT or RSSI_REPORT frame names.
Named(f) == IF f.type = MSG_RSSI_REPORT THEN {f.m1, f.m2} ELSE {f.m1}

InTable(a) == \E i \in 1 .. Len(nodes) : nodes[i].macAddress = a

\* C21: a step in which a slave parses an ASSIGN_ID, POLL_NEIGHBOR or
\* DIRECT_COMM frame meant for another address changes nothing in its state
\* and gives it nothing to send; a step in which the master parses a DATA,
\* HEARTBEAT or RSSI_REPORT frame naming an address that has no record
\* leaves the table as it was.
C21_ForeignFramesIgnored ==
  /\ [][(air # <<>> /\ air[1].type \in {MSG_ASSIGN_ID, MSG_POLL_NEIGHBOR, MSG_DIRECT_COMM})
          => \A n \in Slaves :
               (n \in pending /\ n \notin pending' /\ Addressee(air[1]) # n)
                 => SlaveState(n)' = SlaveState(n)]_vars
  /\ [][(air # <<>> /\ masterMAC \in pending
           /\ air[1].type \in {MSG_DATA, MSG_HEARTBEAT, MSG_RSSI_REPORT}
           /\ \E a \in Named(air[1]) : ~InTable(a))
          => nodes' = nodes]_vars

\* The master, with a record last seen before now first in its table, has
\* a frame to parse that names an address without a record.
C21_Witness ==
  /\ mpc \in {"loop", "collect"}
  /\ nodes # <<>>
  /\ nodes[1].lastSeen < now
  /\ air # <<>>
  /\ masterMAC \in pending
  /\ air[1].type \in {MSG_DATA, MSG_HEARTBEAT, MSG_RSSI_REPORT}
  /\ \E a \in Named(air[1]) : ~InTable(a)

\* The POLL_NEIGHBOR frames among the frames queued for sending.
IsPoll(f) == f.type = MSG_POLL_NEIGHBOR

\* C22: when the response window closes on a table of N nodes, the
\* POLL_NEIGHBOR frames queued are one for each pair of a prober of rank 1
\* or 2 and a target of rank 3 to N, and no other: 2*(N-2) frames for N > 2,
\* none for N <= 2, no pair twice, and no prober as its own target.
C22_ProbingSchedule ==
  [][(mpc = "discovery" /\ mpc' = "assign")
       => LET polls == SelectSeq(mq', IsPoll)
              N == Len(nodes')
              pairs == {<<polls[k].m2, polls[k].m3>> : k \in 1 .. Len(polls)}
          IN /\ pairs = {<<nodes'[p].macAddress, nodes'[t].macAddress>> :
                           p \in {1, 2}, t \in 3 .. N}
             /\ Len(polls) = IF N > 2 THEN 2 * (N - 2) ELSE 0
             /\ Cardinality(pairs) = Len(polls)
             /\ \A k \in 1 .. Len(polls) : polls[k].m2 # polls[k].m3]_vars

\* The window has closed on a table of more than three nodes, and the
\* frames of the schedule are queued behind the ASSIGN_ID frames.
C22_Witness ==
  /\ mpc = "assign"
  /\ Len(nodes) > 3
  /\ Len(mq) = Len(nodes) + 2 * (Len(nodes) - 2)
  /\ IsPoll(mq[Len(mq)])

\* Slave n has its turn at a DIRECT_COMM query meant for it, in its loop().
QueryFor(n) ==
  /\ air # <<>>
  /\ air[1].type = MSG_DIRECT_COMM
  /\ Addressee(air[1]) = n
  /\ n \in pending
  /\ Listening(n)
  /\ spc[n] = "loop"

\* C23: a slave takes a peer as its next hop only in a step in which it
\* parses a DIRECT_COMM query of that peer carrying the Direct flag while
\* it is itself not Direct; a Direct slave keeps its next hop through every
\* step taken with a query on the air. A slave that has its turn at a query
\* meant for it either misses it, with no change of its state, or has
\* exactly one ACK to send, whose flag is its own Direct status.
C23_RelayOnlyIfAdvertised ==
  [][\A n \in Slaves :
       /\ (bestHopMAC'[n] # bestHopMAC[n] /\ bestHopMAC'[n] # slaveMasterMAC[n])
            => /\ QueryFor(n)
               /\ air[1].m1 = bestHopMAC'[n]
               /\ air[1].b1 = 1
               /\ ~canDirectComm[n]
       /\ (canDirectComm[n] /\ air # <<>> /\ air[1].type = MSG_DIRECT_COMM)
            => bestHopMAC'[n] = bestHopMAC[n]
       /\ (QueryFor(n) /\ n \notin pending')
            => \/ SlaveState(n)' = SlaveState(n)
               \/ /\ outbox'[n] = <<DirectAckFrame(n, Flag(canDirectComm[n]))>>
                  /\ canDirectComm'[n] = canDirectComm[n]]_vars

\* A slave that is not Direct has taken a peer as its next hop and has the
\* reply to the peer's query to send.
C23_Witness ==
  \E n \in Slaves :
    /\ ~canDirectComm[n]
    /\ bestHopMAC[n] \in Slaves \ {n}
    /\ outbox[n] = <<DirectAckFrame(n, 0)>>
    /\ myNodeID[n] > 0

\* C24: the master's table never holds more than MAX_NODES records and no
\* slave's neighbour table more than MAX_NEIGHBORS entries; the step in
\* which the master parses, with a full table, an acknowledgement of an
\* address without a record leaves the table as it was.
C24_Capacity ==
  /\ [](Len(nodes) <= MAX_NODES /\ \A n \in Slaves : Len(neighbors[n]) <= MAX_NEIGHBORS)
  /\ [][(/\ mpc = "discovery"
         /\ air # <<>>
         /\ masterMAC \in pending
         /\ air[1].type = MSG_ACK
         /\ Len(nodes) = MAX_NODES
         /\ ~InTable(air[1].m1))
          => nodes' = nodes]_vars

\* Both tables are full, and the master has an acknowledgement to parse
\* from an address without a record.
C24_Witness ==
  /\ Len(nodes) = MAX_NODES
  /\ \E n \in Slaves : Len(neighbors[n]) = MAX_NEIGHBORS
  /\ mpc = "discovery"
  /\ air # <<>>
  /\ masterMAC \in pending
  /\ air[1].type = MSG_ACK
  /\ ~InTable(air[1].m1)

\* C25: a slave that has a DATA frame of its own to send is Direct or has a
\* relay chosen, its bestPathRSSI being above the initial value.
C25_TelemetryNeedsRoute ==
  \A n \in alive :
    (HasToSend(n, {MSG_DATA}) /\ outbox[n][1].m1 = n)
      => (canDirectComm[n] \/ bestPathRSSI[n] > INITIAL_BEST_PATH)

\* C26: a frame a node has its turn at can be handled by the handler for
\* its type: a slave waiting for the reply to its query can take a DISCOVERY
\* frame by the step of handleDiscovery, which leaves it with its
\* acknowledgement to send, and an ASSIGN_ID frame meant for it by the step
\* that gives it the identifier of the frame; the master in its collection
\* window can take a DATA or HEARTBEAT frame, whatever its reading, by the
\* step that leaves the table as handleIncomingMessage leaves it.
C26_EveryFrameHandled ==
  /\ \A n \in alive :
       (spc[n] = "await" /\ Listening(n) /\ Turn(n))
         => /\ air[1].type = MSG_DISCOVERY
                 => ENABLED (NodeNext /\ outbox'[n] = <<AckFrame(n)>>)
            /\ (air[1].type = MSG_ASSIGN_ID /\ Addressee(air[1]) = n)
                 => ENABLED (NodeNext /\ n \notin pending' /\ myNodeID'[n] = air[1].b1)
  /\ (mpc = "collect" /\ Turn(masterMAC) /\ air[1].type \in {MSG_DATA, MSG_HEARTBEAT})
       => \A r \in MasterRSSI :
            ENABLED (NodeNext /\ nodes' = handleIncomingMessage(nodes, air[1], r, now))

\* C27: the viaNode of every two-hop record of the master's table is the
\* identifier of another record of the table, and that record is one-hop.
C27_RelayIsDirectNode ==
  \A i \in 1 .. Len(nodes) :
    nodes[i].hopCount = 2
      => /\ nodes[i].viaNode \in 1 .. Len(nodes)
         /\ nodes[i].viaNode # i
         /\ nodes[nodes[i].viaNode].hopCount = 1

\* C28: at the end of the first discovery cycle, when no slave has failed,
\* no slave has sent a frame of its timers and every frame of the cycle that
\* leaves a trace where it arrives has arrived (the master has a record of
\* every slave, every slave has its identifier, and every poll target that
\* is not Direct has each Direct prober of its polls as a neighbor), every
\* slave with a two-hop record has the node of the record's viaNode as its
\* chosen relay, and every slave with a one-hop record is Direct.
C28_RoutesAgree ==
  (/\ mpc = "loop" /\ cycles = 1 /\ ChannelIdle
   /\ alive = Slaves /\ failed = {} /\ fired = 0
   /\ \A n \in Slaves : spc[n] = "loop" /\ myNodeID[n] # 0
   /\ Len(nodes) = NumSlaves
   /\ \A k \in DOMAIN instructNeighborPolling(nodes) :
        LET prober == instructNeighborPolling(nodes)[k].m2
            target == instructNeighborPolling(nodes)[k].m3
        IN (canDirectComm[prober] /\ ~canDirectComm[target])
             => \E j \in DOMAIN neighbors[target] : neighbors[target][j].macAddress = prober)
    => \A i \in 1 .. Len(nodes) :
         /\ nodes[i].hopCount = 2
              => bestHopMAC[nodes[i].macAddress] = nodes[nodes[i].viaNode].macAddress
         /\ nodes[i].hopCount = 1 => canDirectComm[nodes[i].macAddress]


\* C29: once the master is back in its loop and the channel is quiet, no
\* two running slaves hold the same non-zero myNodeID, and a running slave
\* holding identifier k > 0 is the node at rank k of the master's table.
C29_IdentifierAgreement ==
  (mpc = "loop" /\ cycles >= 1 /\ ChannelIdle)
    => \A a \in alive :
         myNodeID[a] > 0
           => /\ myNodeID[a] <= Len(nodes)
              /\ nodes[myNodeID[a]].macAddress = a
              /\ \A b \in alive \ {a} : myNodeID[b] # myNodeID[a]


\* C30: whenever the master is in loop(), outside a discovery cycle, every
\* one-hop record has pathRSSI equal to its direct rssi and the table is
\* in non-increasing order of direct rssi, HEARTBEAT frames included.
C30_SteadyTable ==
  mpc = "loop"
    => /\ \A i \in 1 .. Len(nodes) :
            nodes[i].hopCount = 1 => nodes[i].pathRSSI = nodes[i].rssi
       /\ \A i \in 1 .. Len(nodes) - 1 : nodes[i].rssi >= nodes[i + 1].rssi

============================================================================
